---------------------------- MODULE Spec2Model ----------------------------
(***************************************************************************)
(* Batch pipeline of the Pinku filter page (src/pinku-batched.tsx): the    *)
(* React state of Page, the UI handlers that change it, and handleConvert  *)
(* with its concurrently progressing per-file item tasks.                  *)
(*                                                                         *)
(* One action is one macrotask of the browser's event loop: a UI event, or *)
(* the load / error event of one image together with every microtask it    *)
(* makes runnable (the rest of that item task, Promise.all's reaction and, *)
(* once Promise.all settles, the tail of handleConvert).                   *)
(* SpecSteps splits the rest of an item task into the passes of            *)
(* filtering's loop; SpecFilter runs the transform of one canvas alone.    *)
(***************************************************************************)
EXTENDS Integers, Sequences, FiniteSets, TLC

\* ------------------------------------------------------------------ bounds
MaxFiles == 2       \* longest file list the user builds by hand
MaxAdd == 2         \* most files chosen in one file dialog
MaxTasks == 3       \* item tasks of overlapping invocations
LargeTotal == 200   \* size of the largest pre-selected file list (SpecLarge)

Names == {"a.png", "b.png"}

\* Sequences over S of length lo..hi.
SeqsOf(S, lo, hi) == UNION {[1..n -> S] : n \in lo..hi}

\* ------------------------------------------------------------------- state
VARIABLES
    files,               \* useState<File[]>: the names of the selected files
    processedImages,     \* useState: the published result list
    isProcessing,        \* useState<boolean>
    processingProgress,  \* useState<number>
    batches,             \* one record per invocation of handleConvert whose
                         \* closures are still referenced, oldest first: the
                         \* variables they hold and the invocation's promises
    bitmap,              \* the pixels of the canvas of the transform on the
                         \* call stack, as bytes r, g, b, a; <<>> if none
    imageData,           \* imageData.data, the copy of the canvas pixels that
                         \* getImageData returned; <<>> if none
    running,             \* the item task on the call stack between its
                         \* resumption and its end, and the offset its
                         \* filtering loop has reached; Idle if none
    lutIndex,            \* the i of the module-level loop that fills rLUT,
                         \* gLUT and bLUT: the entries below it are filled
    lutWrites,           \* the writes to the three tables by anything but
                         \* that loop: <<channel, index>> to the byte written
    now                  \* the latest value Date.now() has returned

vars == <<files, processedImages, isProcessing, processingProgress, batches,
          bitmap, imageData, running, lutIndex, lutWrites, now>>

\* The module-level state and the clock, which the handlers of Page other
\* than handlePaste only read.
globals == <<lutIndex, lutWrites, now>>

\* The variables of the transform in flight.
canvas == <<bitmap, imageData, running>>

\* No item task is on the call stack.
Idle == [b |-> 0, i |-> 0, at |-> 0]

\* Status of one item task (the async callback of files.map):
\*   "loading"  suspended at the await of the image's load / error event
\*   "ok"       fulfilled with a result entry
\*   "null"     fulfilled with null (canvas.getContext("2d") returned null)
\*   "encfail"  rejected: canvas.toDataURL threw
\*   "decfail"  rejected: the image fired onerror
Fulfilled == {"ok", "null"}
Rejected == {"encfail", "decfail"}
Outcomes == Fulfilled \cup Rejected

\* ------------------------------------------------------- pure computations

\* Math.round((processedCount / files.length) * 100) in IEEE-754 doubles.
\* The quotient is the double nearest to c/t and the product is rounded
\* again; Math.round rounds halves up.  The double result is the exact
\* half-up rounding of 100*c/t except where 100*c/t is exactly k + 1/2 and
\* the two roundings leave the product just below it, which happens for
\* c/t in {29/200, 57/200, 113/200, 115/200} (14.499.., 28.499.., 56.499..,
\* 57.499..): there Math.round yields k.
FpLowHalves == {29, 57, 113, 115}

\* A plausible slip: Math.floor in place of Math.round.
Progress_Truncating(c, t) == (100 * c) \div t

Progress(c, t) ==
    IF \E h \in FpLowHalves : 200 * c = h * t
    THEN (100 * c) \div t
    ELSE (200 * c + t) \div (2 * t)

\* A plausible slip: the prefix left out of the output name.
Entry_NoPrefix(name) ==
    [url |-> "data:" \o name, name |-> name, originalName |-> name]

\* The object an item task returns on success.
Entry(name) ==
    [url |-> "data:" \o name, name |-> "pinku_" \o name, originalName |-> name]

\* The value of processingPromises[i] once fulfilled: an entry or null.
Null == [url |-> "", name |-> "", originalName |-> ""]

TaskValue(name, status) == IF status = "ok" THEN Entry(name) ELSE Null

\* A plausible slip: Promise.race-like gathering that fulfils with the first
\* fulfilled item instead of waiting for all of them.
PromiseAll_First(all, task) ==
    IF all # "pending" THEN all
    ELSE IF \E i \in DOMAIN task : task[i] \in Rejected THEN "rejected"
    ELSE IF \E i \in DOMAIN task : task[i] \in Fulfilled THEN "fulfilled"
    ELSE "pending"

\* Promise.all(processingPromises): rejects with the first rejection, fulfils
\* when every input promise has fulfilled; a settled promise stays settled.
PromiseAll(all, task) ==
    IF all # "pending" THEN all
    ELSE IF \E i \in DOMAIN task : task[i] \in Rejected THEN "rejected"
    ELSE IF \A i \in DOMAIN task : task[i] \in Fulfilled THEN "fulfilled"
    ELSE "pending"

\* A plausible slip: results gathered last-to-first instead of by index.
Results_Reversed(B) ==
    [i \in DOMAIN B.task |->
        TaskValue(B.files[Len(B.task) + 1 - i], B.task[Len(B.task) + 1 - i])]

\* results: the values of Promise.all, in the index order of the promises.
Results(B) == [i \in DOMAIN B.task |-> TaskValue(B.files[i], B.task[i])]

\* A plausible slip: the results published without the null filter.
ValidResults_NoFilter(B) == Results(B)

\* results.filter(res => res !== null)
ValidResults(B) == SelectSeq(Results(B), LAMBDA res : res # Null)

\* A plausible slip: no catch block, so the rejection of Promise.all leaves
\* handleConvert through the finally block.
HandlerOutcome_NoCatch(all) ==
    IF all = "rejected" THEN "rejected" ELSE "fulfilled"

\* How the promise returned by handleConvert settles once Promise.all has:
\* the try block completes when Promise.all fulfilled; when it rejected the
\* catch block logs the error and completes; the finally block completes.
HandlerOutcome(all) ==
    CASE all = "fulfilled" -> "fulfilled"
      [] all = "rejected" -> "fulfilled"

\* A plausible slip: setIsProcessing(false) at the end of the try block
\* instead of the finally block, so a rejection leaves the flag set.
ProcessingAfter_NoFinally(all) == all = "rejected"

\* isProcessing once Promise.all has settled: the finally block runs
\* setIsProcessing(false) after the try block and after the catch block.
ProcessingAfter(all) ==
    CASE all = "fulfilled" -> FALSE
      [] all = "rejected" -> FALSE

\* ------------------------------------------------------------- the filter
MaxPixels == 2      \* most pixels of an image whose bytes are modelled

COLOR_A == <<22, 80, 39>>
COLOR_B == <<249, 159, 210>>

\* A plausible slip: a Uint8Array in place of the Uint8ClampedArray, which
\* drops the fraction (and wraps modulo 256).
ToUint8Clamp_Truncating(n, d) == (n \div d) % 256

\* Storing the number n/d (d > 0) into a Uint8ClampedArray: rounded to the
\* nearest integer, ties to even, and clamped to 0..255.
ToUint8Clamp(n, d) ==
    LET q == n \div d
        twice == 2 * (n % d)
        v == IF twice > d THEN q + 1
             ELSE IF twice < d THEN q
             ELSE IF q % 2 = 0 THEN q ELSE q + 1
    IN  IF v > 255 THEN 255 ELSE IF v < 0 THEN 0 ELSE v

\* A plausible slip: the two weights exchanged.
LUT_Swapped(c) ==
    [i \in 0..255 |-> ToUint8Clamp(COLOR_A[c] * i + COLOR_B[c] * (255 - i), 255)]

\* A plausible slip: luminance = i / 256.
LUT_Over256(c) ==
    [i \in 0..255 |-> ToUint8Clamp(COLOR_A[c] * (256 - i) + COLOR_B[c] * i, 256)]

\* The lookup table of channel c (1 = red, 2 = green, 3 = blue):
\* COLOR_A[c] * (1 - i/255) + COLOR_B[c] * (i/255), stored into a
\* Uint8ClampedArray.  The double differs from the exact quotient by less
\* than 1e-12 and no exact quotient is closer than 1/510 to a half, so the
\* stored byte is the rounding of the exact quotient.
LUT(c) ==
    [i \in 0..255 |-> ToUint8Clamp(COLOR_A[c] * (255 - i) + COLOR_B[c] * i, 255)]

\* Entry i of the table of channel c as it stands: new Uint8ClampedArray(256)
\* is zero-filled, the loop has filled the entries below lutIndex, and a
\* later write replaces what the loop stored.
TableEntry(c, i) ==
    IF <<c, i>> \in DOMAIN lutWrites THEN lutWrites[<<c, i>>]
    ELSE IF i < lutIndex THEN LUT(c)[i]
    ELSE 0

rLUT == [i \in 0..255 |-> TableEntry(1, i)]
gLUT == [i \in 0..255 |-> TableEntry(2, i)]
bLUT == [i \in 0..255 |-> TableEntry(3, i)]

\* The 769 inputs <<r, g, b>> for which 0.2126 r + 0.7152 g + 0.0722 b is
\* exactly k + 1/2 and the sum of the three double products, added left to
\* right, lies just below it (e.g. 15.499999999999998 for <<0, 14, 76>>).
\* At the other 2599 exact halves, and wherever the exact sum is no half,
\* the double sum lies on the same side of the half as the exact sum.
FpLowLuminance == {
    <<0, 14, 76>>, <<0, 68, 12>>, <<0, 150, 100>>, <<0, 204, 36>>,
    <<1, 97, 165>>, <<1, 124, 133>>, <<1, 151, 101>>, <<1, 178, 69>>,
    <<2, 70, 14>>, <<2, 179, 70>>, <<2, 180, 254>>, <<2, 206, 38>>,
    <<2, 207, 222>>, <<2, 233, 6>>, <<2, 234, 190>>, <<3, 71, 15>>,
    <<3, 126, 135>>, <<3, 153, 103>>, <<3, 207, 39>>, <<3, 235, 191>>,
    <<4, 100, 168>>, <<4, 127, 136>>, <<4, 154, 104>>, <<4, 235, 8>>,
    <<5, 182, 73>>, <<5, 209, 41>>, <<5, 210, 225>>, <<5, 236, 9>>,
    <<5, 237, 193>>, <<6, 47, 50>>, <<6, 74, 18>>, <<6, 75, 202>>,
    <<6, 102, 170>>, <<6, 129, 138>>, <<6, 156, 106>>, <<6, 210, 42>>,
    <<6, 238, 194>>, <<7, 49, 235>>, <<7, 75, 19>>, <<7, 157, 107>>,
    <<7, 238, 11>>, <<8, 49, 52>>, <<8, 185, 76>>, <<8, 213, 228>>,
    <<8, 239, 12>>, <<8, 240, 196>>, <<9, 105, 173>>, <<9, 132, 141>>,
    <<9, 159, 109>>, <<9, 213, 45>>, <<9, 241, 197>>, <<10, 51, 54>>,
    <<10, 52, 238>>, <<10, 78, 22>>, <<10, 133, 142>>, <<10, 241, 14>>,
    <<12, 80, 24>>, <<12, 108, 176>>, <<12, 135, 144>>, <<12, 162, 112>>,
    <<12, 216, 48>>, <<12, 244, 200>>, <<13, 27, 89>>, <<13, 136, 145>>,
    <<13, 190, 81>>, <<13, 244, 17>>, <<14, 28, 90>>, <<14, 56, 242>>,
    <<14, 82, 26>>, <<14, 164, 114>>, <<15, 56, 59>>, <<15, 138, 147>>,
    <<15, 219, 51>>, <<15, 247, 203>>, <<16, 85, 212>>, <<16, 112, 180>>,
    <<16, 193, 84>>, <<16, 221, 236>>, <<16, 247, 20>>, <<17, 59, 245>>,
    <<17, 140, 149>>, <<17, 167, 117>>, <<17, 249, 205>>, <<18, 59, 62>>,
    <<18, 222, 54>>, <<18, 249, 22>>, <<18, 250, 206>>, <<19, 115, 183>>,
    <<19, 196, 87>>, <<19, 224, 239>>, <<19, 250, 23>>, <<20, 115, 0>>,
    <<20, 143, 152>>, <<20, 170, 120>>, <<20, 252, 208>>, <<21, 62, 65>>,
    <<21, 63, 249>>, <<21, 89, 33>>, <<21, 225, 57>>, <<21, 252, 25>>,
    <<21, 253, 209>>, <<22, 63, 66>>, <<22, 91, 218>>, <<22, 118, 186>>,
    <<22, 199, 90>>, <<22, 227, 242>>, <<22, 253, 26>>, <<23, 91, 35>>,
    <<23, 118, 3>>, <<23, 119, 187>>, <<23, 146, 155>>, <<23, 173, 123>>,
    <<23, 255, 211>>, <<24, 119, 4>>, <<24, 147, 156>>, <<24, 174, 124>>,
    <<24, 228, 60>>, <<24, 255, 28>>, <<25, 66, 69>>, <<25, 94, 221>>,
    <<25, 121, 189>>, <<25, 202, 93>>, <<25, 230, 245>>, <<27, 41, 103>>,
    <<27, 68, 71>>, <<27, 95, 39>>, <<27, 122, 7>>, <<27, 150, 159>>,
    <<27, 177, 127>>, <<27, 204, 95>>, <<27, 231, 63>>, <<28, 69, 72>>,
    <<28, 97, 224>>, <<28, 205, 96>>, <<28, 233, 248>>, <<29, 70, 73>>,
    <<30, 98, 42>>, <<30, 125, 10>>, <<30, 126, 194>>, <<30, 153, 162>>,
    <<30, 180, 130>>, <<31, 100, 227>>, <<31, 126, 11>>, <<31, 208, 99>>,
    <<31, 235, 67>>, <<31, 236, 251>>, <<33, 47, 109>>, <<33, 101, 45>>,
    <<33, 102, 229>>, <<33, 128, 13>>, <<33, 129, 197>>, <<34, 129, 14>>,
    <<34, 157, 166>>, <<34, 211, 102>>, <<34, 238, 70>>, <<34, 239, 254>>,
    <<36, 104, 48>>, <<36, 105, 232>>, <<36, 131, 16>>, <<36, 132, 200>>,
    <<37, 51, 113>>, <<37, 214, 105>>, <<37, 241, 73>>, <<38, 133, 18>>,
    <<39, 80, 83>>, <<39, 107, 51>>, <<39, 108, 235>>, <<39, 134, 19>>,
    <<39, 135, 203>>, <<40, 54, 116>>, <<40, 190, 140>>, <<40, 217, 108>>,
    <<40, 244, 76>>, <<41, 136, 21>>, <<42, 83, 86>>, <<42, 110, 54>>,
    <<42, 111, 238>>, <<42, 138, 206>>, <<43, 57, 119>>, <<43, 193, 143>>,
    <<43, 220, 111>>, <<43, 247, 79>>, <<44, 112, 56>>, <<44, 139, 24>>,
    <<44, 140, 208>>, <<44, 221, 112>>, <<45, 86, 89>>, <<45, 114, 241>>,
    <<45, 249, 81>>, <<46, 5, 2>>, <<46, 169, 178>>, <<46, 196, 146>>,
    <<46, 223, 114>>, <<46, 250, 82>>, <<47, 115, 59>>, <<47, 142, 27>>,
    <<47, 143, 211>>, <<47, 224, 115>>, <<48, 35, 156>>, <<48, 89, 92>>,
    <<48, 252, 84>>, <<49, 199, 149>>, <<49, 226, 117>>, <<50, 91, 94>>,
    <<50, 118, 62>>, <<50, 119, 246>>, <<50, 145, 30>>, <<50, 146, 214>>,
    <<50, 227, 118>>, <<51, 255, 87>>, <<52, 147, 32>>, <<53, 121, 65>>,
    <<53, 230, 121>>, <<54, 95, 98>>, <<54, 176, 2>>, <<54, 204, 154>>,
    <<55, 150, 35>>, <<55, 178, 187>>, <<56, 124, 68>>, <<56, 179, 188>>,
    <<56, 233, 124>>, <<57, 98, 101>>, <<57, 126, 253>>, <<57, 179, 5>>,
    <<57, 207, 157>>, <<58, 17, 14>>, <<58, 45, 166>>, <<58, 126, 70>>,
    <<58, 153, 38>>, <<59, 182, 191>>, <<59, 236, 127>>, <<60, 101, 104>>,
    <<60, 182, 8>>, <<60, 210, 160>>, <<61, 20, 17>>, <<61, 102, 105>>,
    <<61, 129, 73>>, <<61, 156, 41>>, <<61, 157, 225>>, <<62, 185, 194>>,
    <<62, 239, 130>>, <<63, 104, 107>>, <<63, 185, 11>>, <<63, 213, 163>>,
    <<64, 51, 172>>, <<64, 105, 108>>, <<65, 133, 77>>, <<65, 160, 45>>,
    <<65, 188, 197>>, <<65, 242, 133>>, <<66, 80, 142>>, <<66, 188, 14>>,
    <<66, 216, 166>>, <<67, 190, 199>>, <<68, 82, 144>>, <<68, 136, 80>>,
    <<68, 190, 16>>, <<68, 245, 136>>, <<69, 83, 145>>, <<69, 191, 17>>,
    <<69, 219, 169>>, <<70, 193, 202>>, <<71, 112, 115>>, <<71, 139, 83>>,
    <<72, 140, 84>>, <<72, 194, 20>>, <<72, 222, 172>>, <<72, 249, 140>>,
    <<73, 33, 213>>, <<73, 196, 205>>, <<74, 33, 30>>, <<74, 115, 118>>,
    <<74, 142, 86>>, <<75, 34, 31>>, <<75, 143, 87>>, <<75, 171, 239>>,
    <<75, 197, 23>>, <<75, 225, 175>>, <<75, 252, 143>>, <<76, 199, 208>>,
    <<77, 63, 1>>, <<77, 91, 153>>, <<77, 118, 121>>, <<77, 145, 89>>,
    <<78, 64, 2>>, <<78, 174, 242>>, <<78, 200, 26>>, <<78, 228, 178>>,
    <<78, 255, 146>>, <<79, 39, 219>>, <<79, 202, 211>>, <<80, 66, 4>>,
    <<80, 94, 156>>, <<81, 40, 37>>, <<81, 68, 189>>, <<81, 177, 245>>,
    <<81, 203, 29>>, <<81, 204, 213>>, <<81, 231, 181>>, <<82, 178, 246>>,
    <<82, 204, 30>>, <<82, 205, 214>>, <<83, 69, 7>>, <<83, 97, 159>>,
    <<83, 178, 63>>, <<84, 43, 40>>, <<84, 179, 64>>, <<84, 180, 248>>,
    <<84, 206, 32>>, <<84, 207, 216>>, <<84, 233, 0>>, <<84, 234, 184>>,
    <<85, 126, 129>>, <<85, 207, 33>>, <<85, 235, 185>>, <<86, 72, 10>>,
    <<86, 100, 162>>, <<86, 235, 2>>, <<87, 155, 99>>, <<87, 183, 251>>,
    <<87, 236, 3>>, <<88, 102, 164>>, <<88, 129, 132>>, <<88, 210, 36>>,
    <<88, 238, 188>>, <<89, 75, 13>>, <<89, 238, 5>>, <<90, 49, 46>>,
    <<90, 185, 70>>, <<90, 212, 38>>, <<90, 213, 222>>, <<90, 240, 190>>,
    <<91, 132, 135>>, <<91, 213, 39>>, <<91, 241, 191>>, <<92, 51, 48>>,
    <<92, 78, 16>>, <<92, 133, 136>>, <<92, 241, 8>>, <<93, 52, 49>>,
    <<94, 135, 138>>, <<94, 216, 42>>, <<94, 244, 194>>, <<95, 81, 19>>,
    <<95, 136, 139>>, <<95, 190, 75>>, <<95, 244, 11>>, <<96, 28, 84>>,
    <<96, 55, 52>>, <<96, 164, 108>>, <<97, 219, 45>>, <<97, 247, 197>>,
    <<98, 112, 174>>, <<98, 193, 78>>, <<98, 221, 230>>, <<98, 247, 14>>,
    <<99, 31, 87>>, <<99, 140, 143>>, <<99, 167, 111>>, <<99, 249, 199>>,
    <<100, 222, 48>>, <<100, 249, 16>>, <<100, 250, 200>>, <<101, 61, 241>>,
    <<101, 115, 177>>, <<101, 196, 81>>, <<101, 224, 233>>, <<101, 250, 17>>,
    <<102, 34, 90>>, <<102, 170, 114>>, <<102, 252, 202>>, <<103, 89, 27>>,
    <<103, 171, 115>>, <<103, 225, 51>>, <<103, 252, 19>>, <<103, 253, 203>>,
    <<104, 63, 60>>, <<104, 91, 212>>, <<104, 118, 180>>, <<104, 199, 84>>,
    <<104, 227, 236>>, <<104, 253, 20>>, <<105, 37, 93>>, <<105, 91, 29>>,
    <<105, 119, 181>>, <<105, 173, 117>>, <<105, 255, 205>>,
    <<106, 174, 118>>, <<106, 255, 22>>, <<107, 94, 215>>, <<107, 121, 183>>,
    <<107, 202, 87>>, <<107, 230, 239>>, <<108, 176, 120>>, <<109, 68, 65>>,
    <<109, 95, 33>>, <<109, 122, 1>>, <<109, 204, 89>>, <<109, 231, 57>>,
    <<110, 70, 250>>, <<110, 124, 186>>, <<110, 205, 90>>, <<110, 233, 242>>,
    <<111, 179, 123>>, <<112, 71, 68>>, <<112, 98, 36>>, <<112, 125, 4>>,
    <<112, 126, 188>>, <<112, 180, 124>>, <<113, 73, 253>>, <<113, 126, 5>>,
    <<113, 208, 93>>, <<113, 235, 61>>, <<113, 236, 245>>, <<114, 19, 134>>,
    <<115, 101, 39>>, <<115, 102, 223>>, <<115, 128, 7>>, <<116, 129, 8>>,
    <<116, 157, 160>>, <<116, 211, 96>>, <<116, 238, 64>>, <<116, 239, 248>>,
    <<118, 104, 42>>, <<118, 105, 226>>, <<118, 131, 10>>, <<119, 51, 107>>,
    <<119, 160, 163>>, <<119, 214, 99>>, <<119, 241, 67>>, <<119, 242, 251>>,
    <<120, 133, 12>>, <<121, 80, 77>>, <<121, 108, 229>>, <<121, 134, 13>>,
    <<122, 163, 166>>, <<122, 190, 134>>, <<122, 217, 102>>,
    <<122, 244, 70>>, <<122, 245, 254>>, <<123, 136, 15>>, <<124, 83, 80>>,
    <<124, 111, 232>>, <<124, 137, 16>>, <<125, 193, 137>>,
    <<125, 220, 105>>, <<126, 112, 50>>, <<126, 139, 18>>, <<126, 140, 202>>,
    <<126, 221, 106>>, <<127, 249, 75>>, <<128, 141, 20>>, <<128, 169, 172>>,
    <<128, 250, 76>>, <<129, 115, 53>>, <<129, 143, 205>>, <<129, 224, 109>>,
    <<130, 89, 86>>, <<130, 252, 78>>, <<131, 199, 143>>, <<131, 226, 111>>,
    <<132, 118, 56>>, <<132, 146, 208>>, <<132, 227, 112>>, <<133, 119, 57>>,
    <<133, 147, 209>>, <<133, 255, 81>>, <<134, 147, 26>>, <<135, 121, 59>>,
    <<135, 149, 211>>, <<135, 230, 115>>, <<136, 95, 92>>, <<136, 122, 60>>,
    <<136, 204, 148>>, <<137, 14, 5>>, <<137, 150, 29>>, <<137, 178, 181>>,
    <<138, 152, 214>>, <<138, 179, 182>>, <<138, 233, 118>>, <<139, 98, 95>>,
    <<139, 153, 215>>, <<139, 207, 151>>, <<140, 153, 32>>,
    <<140, 235, 120>>, <<141, 182, 185>>, <<141, 236, 121>>,
    <<142, 101, 98>>, <<142, 182, 2>>, <<142, 210, 154>>, <<143, 102, 99>>,
    <<143, 156, 35>>, <<143, 238, 123>>, <<144, 239, 124>>,
    <<145, 104, 101>>, <<145, 185, 5>>, <<145, 213, 157>>, <<146, 105, 102>>,
    <<146, 133, 254>>, <<146, 159, 38>>, <<147, 160, 39>>, <<147, 188, 191>>,
    <<148, 80, 136>>, <<148, 107, 104>>, <<148, 188, 8>>, <<148, 216, 160>>,
    <<149, 162, 41>>, <<149, 190, 193>>, <<150, 82, 138>>, <<150, 190, 10>>,
    <<150, 245, 130>>, <<151, 56, 171>>, <<151, 110, 107>>, <<151, 191, 11>>,
    <<151, 219, 163>>, <<152, 193, 196>>, <<153, 85, 141>>,
    <<153, 112, 109>>, <<153, 166, 45>>, <<153, 194, 197>>, <<154, 59, 174>>,
    <<154, 140, 78>>, <<154, 194, 14>>, <<154, 222, 166>>, <<154, 249, 134>>,
    <<155, 196, 199>>, <<157, 34, 25>>, <<157, 62, 177>>, <<157, 89, 145>>,
    <<157, 143, 81>>, <<157, 171, 233>>, <<157, 197, 17>>, <<157, 225, 169>>,
    <<157, 252, 137>>, <<158, 199, 202>>, <<159, 91, 147>>, <<160, 200, 20>>,
    <<160, 228, 172>>, <<161, 202, 205>>, <<162, 94, 150>>, <<163, 68, 183>>,
    <<163, 149, 87>>, <<163, 177, 239>>, <<164, 150, 88>>, <<164, 178, 240>>,
    <<164, 204, 24>>, <<164, 205, 208>>, <<165, 69, 1>>, <<165, 97, 153>>,
    <<165, 178, 57>>, <<166, 71, 186>>, <<166, 179, 58>>, <<166, 206, 26>>,
    <<166, 207, 210>>, <<166, 234, 178>>, <<167, 126, 123>>,
    <<167, 207, 27>>, <<167, 208, 211>>, <<167, 235, 179>>, <<168, 72, 4>>,
    <<168, 100, 156>>, <<169, 74, 189>>, <<169, 155, 93>>, <<169, 183, 245>>,
    <<170, 210, 30>>, <<170, 211, 214>>, <<170, 238, 182>>, <<171, 75, 7>>,
    <<172, 185, 64>>, <<172, 212, 32>>, <<172, 213, 216>>, <<172, 240, 184>>,
    <<173, 213, 33>>, <<173, 241, 185>>, <<174, 78, 10>>, <<174, 133, 130>>,
    <<174, 241, 2>>, <<176, 190, 252>>, <<176, 216, 36>>, <<176, 244, 188>>,
    <<177, 81, 13>>, <<177, 190, 69>>, <<177, 244, 5>>, <<178, 164, 102>>,
    <<179, 56, 47>>, <<179, 193, 255>>, <<179, 219, 39>>, <<179, 247, 191>>,
    <<180, 84, 16>>, <<180, 139, 136>>, <<180, 193, 72>>, <<180, 221, 224>>,
    <<180, 247, 8>>, <<181, 167, 105>>, <<181, 221, 41>>, <<181, 249, 193>>,
    <<182, 249, 10>>, <<183, 61, 235>>, <<183, 87, 19>>, <<183, 196, 75>>,
    <<183, 224, 227>>, <<183, 250, 11>>, <<184, 170, 108>>,
    <<184, 252, 196>>, <<185, 225, 45>>, <<185, 253, 197>>, <<186, 199, 78>>,
    <<186, 227, 230>>, <<186, 253, 14>>, <<187, 91, 23>>, <<187, 119, 175>>,
    <<187, 173, 111>>, <<187, 255, 199>>, <<188, 174, 112>>,
    <<188, 255, 16>>, <<189, 202, 81>>, <<189, 230, 233>>, <<191, 68, 59>>,
    <<191, 95, 27>>, <<191, 204, 83>>, <<191, 231, 51>>, <<192, 70, 244>>,
    <<192, 205, 84>>, <<192, 233, 236>>, <<193, 179, 117>>, <<194, 71, 62>>,
    <<194, 98, 30>>, <<194, 180, 118>>, <<195, 45, 95>>, <<195, 73, 247>>,
    <<195, 208, 87>>, <<195, 235, 55>>, <<195, 236, 239>>, <<196, 128, 184>>,
    <<196, 182, 120>>, <<198, 48, 98>>, <<198, 76, 250>>, <<198, 129, 2>>,
    <<198, 157, 154>>, <<198, 211, 90>>, <<198, 238, 58>>, <<198, 239, 242>>,
    <<199, 185, 123>>, <<201, 51, 101>>, <<201, 214, 93>>, <<201, 242, 245>>,
    <<202, 134, 190>>, <<203, 80, 71>>, <<204, 54, 104>>, <<204, 135, 8>>,
    <<204, 163, 160>>, <<204, 244, 64>>, <<206, 83, 74>>, <<207, 57, 107>>,
    <<207, 193, 131>>, <<207, 220, 99>>, <<207, 248, 251>>, <<208, 112, 44>>,
    <<208, 140, 196>>, <<208, 221, 100>>, <<208, 249, 252>>, <<209, 86, 77>>,
    <<209, 249, 69>>, <<210, 141, 14>>, <<210, 169, 166>>, <<210, 250, 70>>,
    <<211, 143, 199>>, <<211, 224, 103>>, <<211, 252, 255>>, <<212, 89, 80>>,
    <<212, 252, 72>>, <<213, 118, 233>>, <<213, 199, 137>>,
    <<213, 226, 105>>, <<214, 146, 202>>, <<214, 227, 106>>,
    <<215, 119, 51>>, <<215, 147, 203>>, <<215, 255, 75>>, <<216, 147, 20>>,
    <<217, 149, 205>>, <<217, 230, 109>>, <<218, 95, 86>>, <<218, 204, 142>>,
    <<219, 150, 23>>, <<219, 178, 175>>, <<220, 152, 208>>,
    <<220, 233, 112>>, <<221, 98, 89>>, <<221, 125, 57>>, <<221, 153, 209>>,
    <<221, 207, 145>>, <<222, 153, 26>>, <<222, 235, 114>>,
    <<223, 182, 179>>, <<224, 47, 156>>, <<224, 101, 92>>, <<224, 210, 148>>,
    <<225, 20, 5>>, <<225, 102, 93>>, <<225, 156, 29>>, <<225, 238, 117>>,
    <<226, 158, 214>>, <<226, 239, 118>>, <<227, 213, 151>>,
    <<228, 105, 96>>, <<228, 133, 248>>, <<228, 159, 32>>, <<228, 241, 120>>,
    <<229, 160, 33>>, <<229, 188, 185>>, <<230, 188, 2>>, <<230, 216, 154>>,
    <<231, 136, 251>>, <<231, 190, 187>>, <<231, 244, 123>>,
    <<232, 82, 132>>, <<232, 190, 4>>, <<232, 245, 124>>, <<233, 28, 13>>,
    <<233, 56, 165>>, <<233, 191, 5>>, <<233, 219, 157>>, <<234, 165, 38>>,
    <<234, 193, 190>>, <<236, 31, 16>>, <<236, 59, 168>>, <<236, 140, 72>>,
    <<236, 194, 8>>, <<236, 222, 160>>, <<236, 249, 128>>, <<237, 114, 105>>,
    <<237, 196, 193>>, <<239, 143, 75>>, <<239, 171, 227>>,
    <<239, 252, 131>>, <<240, 199, 196>>, <<241, 91, 141>>, <<242, 200, 14>>,
    <<242, 228, 166>>, <<243, 120, 111>>, <<243, 202, 199>>,
    <<245, 68, 177>>, <<245, 149, 81>>, <<245, 177, 233>>, <<246, 204, 18>>,
    <<246, 205, 202>>, <<247, 178, 51>>, <<248, 71, 180>>, <<248, 179, 52>>,
    <<248, 206, 20>>, <<248, 207, 204>>, <<248, 234, 172>>,
    <<249, 126, 117>>, <<249, 207, 21>>, <<249, 208, 205>>,
    <<249, 235, 173>>, <<251, 74, 183>>, <<251, 155, 87>>, <<251, 183, 239>>,
    <<252, 129, 120>>, <<252, 210, 24>>, <<252, 211, 208>>,
    <<252, 238, 176>>, <<253, 75, 1>>, <<255, 132, 123>>, <<255, 213, 27>>,
    <<255, 214, 211>>, <<255, 241, 179>>
    }

\* A plausible slip: a mistyped weight, 0.7252 for 0.7152.
Luminance_Heavy(r, g, b) == (2126 * r + 7252 * g + 722 * b + 5000) \div 10000

\* Math.round(r * 0.2126 + g * 0.7152 + b * 0.0722) in doubles: halves
\* rounded up, the double sum being below the half on FpLowLuminance.
Luminance(r, g, b) ==
    LET n == 2126 * r + 7152 * g + 722 * b
    IN  IF <<r, g, b>> \in FpLowLuminance THEN n \div 10000
        ELSE (n + 5000) \div 10000

\* A plausible slip: the alpha byte forced opaque.
FilterAt_Opaque(data, i) ==
    LET luminanceInt == Luminance(data[i + 1], data[i + 2], data[i + 3])
    IN  [data EXCEPT ![i + 1] = rLUT[luminanceInt],
                     ![i + 2] = gLUT[luminanceInt],
                     ![i + 3] = bLUT[luminanceInt],
                     ![i + 4] = 255]

\* A plausible slip: the luminance read after the red byte was overwritten.
FilterAt_ReadsWritten(data, i) ==
    LET red == rLUT[Luminance(data[i + 1], data[i + 2], data[i + 3])]
        luminanceInt == Luminance(red, data[i + 2], data[i + 3])
    IN  [data EXCEPT ![i + 1] = red,
                     ![i + 2] = gLUT[luminanceInt],
                     ![i + 3] = bLUT[luminanceInt]]

\* One pass of filtering's loop body, at byte offset i (data[i] of the
\* source is element i + 1 here): r, g and b are read, then replaced; the
\* fourth byte is not touched.
FilterAt(data, i) ==
    LET luminanceInt == Luminance(data[i + 1], data[i + 2], data[i + 3])
    IN  [data EXCEPT ![i + 1] = rLUT[luminanceInt],
                     ![i + 2] = gLUT[luminanceInt],
                     ![i + 3] = bLUT[luminanceInt]]

\* A plausible slip: an assignment of the loop body written the wrong way
\* round, rLUT[luminanceInt] = data[i].
FilterWrites_Reversed(writes, data, i) ==
    (<<1, Luminance(data[i + 1], data[i + 2], data[i + 3])>> :> data[i + 1])
        @@ writes

\* The writes to the tables after the pass of filtering's loop at offset
\* i: the pass indexes the tables and assigns to data only.
FilterWrites(writes, data, i) == writes

\* The writes to the tables after the passes from offset `from` on.
RECURSIVE WritesFrom(_, _, _)
WritesFrom(writes, data, from) ==
    IF from >= Len(data) THEN writes
    ELSE WritesFrom(FilterWrites(writes, data, from), FilterAt(data, from), from + 4)

\* for (let i = from; i < data.length; i += 4) { ... }
RECURSIVE FilterFrom(_, _)
FilterFrom(data, from) ==
    IF from >= Len(data) THEN data
    ELSE FilterFrom(FilterAt(data, from), from + 4)

\* filtering(imageData), on a buffer of whole pixels.
filtering(data) == FilterFrom(data, 0)

\* ------------------------------------------------------------------ actions
Init ==
    /\ files = <<>>
    /\ processedImages = <<>>
    /\ isProcessing = FALSE
    /\ processingProgress = 0
    /\ batches = <<>>
    /\ bitmap = <<>>
    /\ imageData = <<>>
    /\ running = Idle
    /\ lutIndex = 256
    /\ lutWrites = <<>>
    /\ now = 0

\* fileChanged(e): append the chosen files and clear the results.
fileChanged(newFiles) ==
    /\ files' = files \o newFiles
    /\ processedImages' = <<>>
    /\ UNCHANGED <<isProcessing, processingProgress, batches, canvas, globals>>

\* handleRemoveFile(indexToRemove), offered for every shown preview.
handleRemoveFile(indexToRemove) ==
    /\ indexToRemove \in DOMAIN files
    /\ files' = [k \in 1..(Len(files) - 1) |->
                    IF k < indexToRemove THEN files[k] ELSE files[k + 1]]
    /\ UNCHANGED <<processedImages, isProcessing, processingProgress, batches, canvas, globals>>

\* handleReset: the "Clear All" button, rendered while files.length > 0.
handleReset ==
    /\ Len(files) > 0
    /\ files' = <<>>
    /\ processedImages' = <<>>
    /\ processingProgress' = 0
    /\ UNCHANGED <<isProcessing, batches, canvas, globals>>

\* Batch B has no pending item task.
Done(B) == \A i \in DOMAIN B.task : B.task[i] # "loading"

\* The invocations with a pending item task.  Nothing refers to the
\* closures of the others any more; the record of the latest one is kept
\* until the next invocation begins.
Unfinished(bs) == SelectSeq(bs, LAMBDA B : ~Done(B))

\* The state of a fresh invocation: every item task has run up to its await
\* and holds the object URL it created; revoked[i] counts the calls of
\* URL.revokeObjectURL on the URL of item i.
NewBatch(fs) ==
    [files |-> fs,
     processedCount |-> 0,
     task |-> [i \in DOMAIN fs |-> "loading"],
     revoked |-> [i \in DOMAIN fs |-> 0],
     all |-> "pending",
     promise |-> "pending"]

\* The convert button delivers its click only while it is enabled:
\* disabled={files.length === 0 || isProcessing}.
ConvertEnabled == Len(files) # 0 /\ ~isProcessing

\* A plausible slip: setProcessingProgress(0) left out.
StartBatch_KeepProgress ==
    /\ isProcessing' = TRUE
    /\ processedImages' = <<>>
    /\ batches' = Append(Unfinished(batches), NewBatch(files))
    /\ UNCHANGED <<files, processingProgress, canvas, globals>>

\* handleConvert past its guard, up to `await Promise.all(...)`: the three
\* state updates, then files.map runs every item task up to its await.
StartBatch ==
    /\ isProcessing' = TRUE
    /\ processingProgress' = 0
    /\ processedImages' = <<>>
    /\ batches' = Append(Unfinished(batches), NewBatch(files))
    /\ UNCHANGED <<files, canvas, globals>>

\* A plausible slip: no guard.  With an empty list files.map starts nothing,
\* Promise.all([]) fulfils at once and the tail runs in the same macrotask.
handleConvert_NoEarlyReturn ==
    IF Len(files) = 0
    THEN /\ isProcessing' = FALSE
         /\ processingProgress' = 0
         /\ processedImages' = <<>>
         /\ batches' = Append(Unfinished(batches),
                              [NewBatch(files) EXCEPT !.all = "fulfilled",
                                                      !.promise = "fulfilled"])
         /\ UNCHANGED <<files, canvas, globals>>
    ELSE StartBatch

\* handleConvert: `if (files.length === 0) return;`, then the batch starts.
handleConvert ==
    IF Len(files) = 0 THEN UNCHANGED vars
    ELSE StartBatch

\* A plausible slip: the counter and progress updated after toDataURL.
Counts_AfterEncode(o) == o = "ok"

\* A plausible slip: the counter and progress updated before `if (ctx)`.
Counts_BeforeContext(o) == o \in {"ok", "encfail", "null"}

\* Does an item task with this outcome run processedCount++ and
\* setProcessingProgress?  Both stand before canvas.toDataURL.
Counts(o) == o \in {"ok", "encfail"}

\* A plausible slip: the URL revoked before each return instead of in a
\* finally block, so a task that throws leaves it behind.
Revokes_NotOnThrow(o) == o \in Fulfilled

\* Does an item task that ends with this outcome run
\* URL.revokeObjectURL(objectUrl)?  It stands in the finally block.
Revokes(o) == o \in Outcomes

\* A plausible slip: an increment computed from a stale read of the counter,
\* so that every increment after the first is lost.
PostIncrement_Stale(c) == IF c = 0 THEN c + 1 ELSE c

\* A plausible slip: the counter incremented before and after the encode.
PostIncrement_Twice(c) == c + 2

\* processedCount++
PostIncrement(c) == c + 1

\* A plausible slip: the progress computed from the list on the screen.
Total_Live(B) == IF Len(files) = 0 THEN Len(B.files) ELSE Len(files)

\* files.length inside an item task: the length of the list the invocation
\* closed over.
Total(B) == Len(B.files)

\* Item task i of batch b resumes with outcome o and runs to its end; then
\* Promise.all reacts and, if it settles, handleConvert's tail runs.
Resume(b, i, o) ==
    LET B == batches[b]
        cnt == IF Counts(o) THEN PostIncrement(B.processedCount) ELSE B.processedCount
        B1 == [B EXCEPT !.task[i] = o, !.processedCount = cnt,
                        !.revoked[i] = IF Revokes(o) THEN @ + 1 ELSE @]
        all1 == PromiseAll(B.all, B1.task)
        settles == B.all = "pending" /\ all1 # "pending"
    IN  /\ batches' = [batches EXCEPT ![b] =
              [B1 EXCEPT !.all = all1,
                         !.promise = IF settles THEN HandlerOutcome(all1) ELSE @]]
        /\ processingProgress' =
              IF Counts(o) THEN Progress(cnt, Total(B)) ELSE processingProgress
        /\ processedImages' =
              IF settles /\ all1 = "fulfilled" THEN ValidResults(B1)
              ELSE processedImages
        /\ isProcessing' = IF settles THEN ProcessingAfter(all1) ELSE isProcessing
        /\ UNCHANGED <<files, globals>>

Loading(b, i) ==
    /\ b \in DOMAIN batches
    /\ i \in DOMAIN batches[b].task
    /\ batches[b].task[i] = "loading"

\* image.onload of item i: ctx tells whether getContext("2d") returned a
\* context, enc whether toDataURL returned.
imageOnload(b, i, ctx, enc) ==
    /\ Loading(b, i)
    /\ Resume(b, i, IF ~ctx THEN "null" ELSE IF enc THEN "ok" ELSE "encfail")
    /\ UNCHANGED canvas

\* image.onerror of item i.
imageOnerror(b, i) ==
    /\ Loading(b, i)
    /\ Resume(b, i, "decfail")
    /\ UNCHANGED canvas

\* ------------------------------------------------------- bounded behaviour
\* The item tasks of the invocations that still have a pending item task.
RECURSIVE LiveTasks(_)
LiveTasks(bs) ==
    IF bs = <<>> THEN 0
    ELSE (IF Done(Head(bs)) THEN 0 ELSE Len(Head(bs).files)) + LiveTasks(Tail(bs))

\* Bound on overlapping invocations: one that overlaps none is always
\* allowed, one that overlaps unfinished ones within MaxTasks item tasks.
Startable ==
    \/ LiveTasks(batches) = 0
    \/ LiveTasks(batches) + Len(files) <= MaxTasks

\* The pending item tasks of batch b.
Pending(b) == {i \in DOMAIN batches[b].task : batches[b].task[i] = "loading"}

\* Is pending task i at an end of a run of pending tasks?
AtEnd(b, i) ==
    LET task == batches[b].task
    IN  IF i = 1 \/ i = Len(task) THEN TRUE
        ELSE task[i - 1] # "loading" \/ task[i + 1] # "loading"

\* Image events of a batch of at most MaxFiles items arrive in any order
\* with any outcome.  In a larger batch every item succeeds and the events
\* arrive at the lowest or the highest pending index.
Schedulable(b) ==
    IF Len(batches[b].files) <= MaxFiles THEN Pending(b)
    ELSE {i \in Pending(b) : AtEnd(b, i)}

Succeeds(b) == Len(batches[b].files) > MaxFiles

ImageEvents ==
    \/ \E b \in DOMAIN batches : \E i \in Schedulable(b), ctx \in BOOLEAN, enc \in BOOLEAN :
          /\ Succeeds(b) => ctx /\ enc
          /\ imageOnload(b, i, ctx, enc)
    \/ \E b \in DOMAIN batches : \E i \in Schedulable(b) :
          /\ ~Succeeds(b)
          /\ imageOnerror(b, i)

Next ==
    \/ \E newFiles \in SeqsOf(Names, 1, MaxAdd) :
          Len(files) + Len(newFiles) <= MaxFiles /\ fileChanged(newFiles)
    \/ \E indexToRemove \in DOMAIN files : handleRemoveFile(indexToRemove)
    \/ handleReset
    \/ ConvertEnabled /\ Startable /\ handleConvert
    \/ ImageEvents

Spec == Init /\ [][Next]_vars

\* The same session in which handleConvert is also called with an empty
\* file list, which the disabled button never does.
NextCall ==
    \/ Next
    \/ Len(files) = 0 /\ handleConvert

SpecCall == Init /\ [][NextCall]_vars

\* The transform of one item task on its own, for every small image over
\* sampled channel values: drawImage has put the decoded pixels on the
\* canvas; getImageData and filtering follow, then putImageData.
RedSamples == {0, 255}
GreenSamples == {0, 14, 76}
BlueSamples == {0, 76}
AlphaSamples == {0, 128, 255}

Pixels ==
    {<<r, g, b, a>> : r \in RedSamples, g \in GreenSamples,
                      b \in BlueSamples, a \in AlphaSamples}
        \cup {<<255, 255, 255, a>> : a \in AlphaSamples}

\* The byte sequence of a sequence of pixels.
Flat(ps) ==
    [k \in 1..(4 * Len(ps)) |-> ps[((k - 1) \div 4) + 1][((k - 1) % 4) + 1]]

PixelBuffers == {Flat(ps) : ps \in SeqsOf(Pixels, 1, MaxPixels)}

InitFilter ==
    /\ bitmap \in PixelBuffers
    /\ imageData = <<>>
    /\ running = Idle
    /\ lutIndex = 256
    /\ lutWrites = <<>>
    /\ now = 0
    /\ files = <<>>
    /\ processedImages = <<>>
    /\ isProcessing = FALSE
    /\ processingProgress = 0
    /\ batches = <<>>

\* const imageData = ctx.getImageData(...); filtering(imageData)
filterImageData ==
    /\ imageData = <<>>
    /\ imageData' = filtering(bitmap)
    /\ lutWrites' = WritesFrom(lutWrites, bitmap, 0)
    /\ UNCHANGED <<files, processedImages, isProcessing, processingProgress,
                   batches, bitmap, running, lutIndex, now>>

\* ctx.putImageData(filterResult, 0, 0)
putImageData ==
    /\ imageData # <<>>
    /\ bitmap' = imageData
    /\ imageData' = <<>>
    /\ UNCHANGED <<files, processedImages, isProcessing, processingProgress,
                   batches, running, globals>>

NextFilter ==
    \/ filterImageData
    \/ putImageData

SpecFilter == InitFilter /\ [][NextFilter]_vars

\* The module's load: the tables are allocated zero-filled and the loop
\* `for (let i = 0; i < 256; i++)` fills entry i of each of them.
InitLUT ==
    /\ lutIndex = 0
    /\ lutWrites = <<>>
    /\ now = 0
    /\ files = <<>>
    /\ processedImages = <<>>
    /\ isProcessing = FALSE
    /\ processingProgress = 0
    /\ batches = <<>>
    /\ bitmap = <<>>
    /\ imageData = <<>>
    /\ running = Idle

\* One pass of the loop: rLUT[i], gLUT[i] and bLUT[i] are stored (the
\* entries below lutIndex are LUT(c)[i], see TableEntry), then i++.
fillEntry ==
    /\ lutIndex < 256
    /\ lutIndex' = lutIndex + 1
    /\ UNCHANGED <<files, processedImages, isProcessing, processingProgress,
                   batches, canvas, lutWrites, now>>

SpecLUT == InitLUT /\ [][fillEntry]_vars

\* The session at the grain of the passes of filtering's loop.
\*
\* A plausible slip: an await inside the loop, once per pixel, to keep the
\* page responsive.
Suspends_EachPixel(at) == at > 0

\* Does the item task on the call stack suspend when its filtering loop has
\* reached offset `at`?  Between the await of the image event and the
\* return there is no await, and filtering is a synchronous function.
Suspends(at) == FALSE

\* The event loop delivers an event when the call stack is empty: no item
\* task is on it, or the one that was has suspended.
Dispatchable == running = Idle \/ Suspends(running.at)

\* The decoded image of this session: MaxPixels pixels, by turns a half
\* transparent red and an opaque dark cyan.
StepImages ==
    {Flat([k \in 1..MaxPixels |->
              IF k % 2 = 1 THEN <<255, 0, 0, 128>> ELSE <<0, 14, 76, 255>>])}

\* image.onload of item i with a 2D context: the task resumes, draws the
\* decoded image on its canvas and reads the pixels back.
taskResumes(b, i, pixels) ==
    /\ running = Idle
    /\ Loading(b, i)
    /\ bitmap' = pixels
    /\ imageData' = pixels
    /\ running' = [b |-> b, i |-> i, at |-> 0]
    /\ UNCHANGED <<files, processedImages, isProcessing, processingProgress,
                   batches, globals>>

\* One pass of filtering's loop.
filteringPass ==
    /\ running # Idle
    /\ running.at < Len(imageData)
    /\ imageData' = FilterAt(imageData, running.at)
    /\ running' = [running EXCEPT !.at = @ + 4]
    /\ lutWrites' = FilterWrites(lutWrites, imageData, running.at)
    /\ UNCHANGED <<files, processedImages, isProcessing, processingProgress,
                   batches, bitmap, lutIndex, now>>

\* The loop has ended: putImageData, processedCount++, the progress, the
\* encode (enc tells whether toDataURL returned), and the task's end with
\* all that follows it (Resume).
taskEnds(enc) ==
    /\ running # Idle
    /\ running.at >= Len(imageData)
    /\ Resume(running.b, running.i, IF enc THEN "ok" ELSE "encfail")
    /\ bitmap' = <<>>
    /\ imageData' = <<>>
    /\ running' = Idle

\* The files of this session all have one name.
StepNames == {"a.png"}

NextSteps ==
    \/ \E newFiles \in SeqsOf(StepNames, 1, MaxAdd) :
          /\ Dispatchable
          /\ Len(files) + Len(newFiles) <= MaxFiles
          /\ fileChanged(newFiles)
    \/ \E indexToRemove \in DOMAIN files :
          Dispatchable /\ handleRemoveFile(indexToRemove)
    \/ Dispatchable /\ handleReset
    \/ Dispatchable /\ ConvertEnabled /\ Startable /\ handleConvert
    \/ \E b \in DOMAIN batches : \E i \in Pending(b), enc \in BOOLEAN :
          Dispatchable /\ imageOnload(b, i, FALSE, enc)
    \/ \E b \in DOMAIN batches : \E i \in Pending(b) :
          Dispatchable /\ imageOnerror(b, i)
    \/ \E b \in DOMAIN batches : \E i \in Pending(b), pixels \in StepImages :
          taskResumes(b, i, pixels)
    \/ filteringPass
    \/ \E enc \in BOOLEAN : taskEnds(enc)

SpecSteps == Init /\ [][NextSteps]_vars

\* A session that starts with a file list already selected, in which files
\* are removed and converted and no image is left undecided for ever: the
\* browser eventually fires the load or the error event of a loading image.
InitFair ==
    /\ files \in SeqsOf(Names, 1, MaxFiles)
    /\ processedImages = <<>>
    /\ isProcessing = FALSE
    /\ processingProgress = 0
    /\ batches = <<>>
    /\ bitmap = <<>>
    /\ imageData = <<>>
    /\ running = Idle
    /\ lutIndex = 256
    /\ lutWrites = <<>>
    /\ now = 0

NextFair ==
    \/ \E indexToRemove \in DOMAIN files : handleRemoveFile(indexToRemove)
    \/ handleReset
    \/ ConvertEnabled /\ Startable /\ handleConvert
    \/ ImageEvents

SpecFair == InitFair /\ [][NextFair]_vars /\ WF_vars(ImageEvents)

\* A session that starts with a file list already selected and only
\* converts: lists of up to MaxFiles files, and large lists.
LargeSizes == {LargeTotal - 1, LargeTotal}

LargeList(n) == [k \in 1..n |-> IF k % 2 = 1 THEN "a.png" ELSE "b.png"]

InitLarge ==
    /\ files \in SeqsOf(Names, 1, MaxFiles) \cup {LargeList(n) : n \in LargeSizes}
    /\ processedImages = <<>>
    /\ isProcessing = FALSE
    /\ processingProgress = 0
    /\ batches = <<>>
    /\ bitmap = <<>>
    /\ imageData = <<>>
    /\ running = Idle
    /\ lutIndex = 256
    /\ lutWrites = <<>>
    /\ now = 0

NextLarge ==
    \/ ConvertEnabled /\ Startable /\ handleConvert
    \/ ImageEvents

SpecLarge == InitLarge /\ [][NextLarge]_vars

\* ------------------------------------------------------------- clipboard
MaxClock == 1       \* latest value of Date.now(), in ms after the page opened

\* A MIME type "t/s" as the pair of its parts: type.startsWith("image/")
\* looks at the first and type.split('/')[1] is the second.
ImagePng == <<"image", "png">>
TextPlain == <<"text", "plain">>

\* The DataTransferItems of a paste: files (getAsFile() returns the file,
\* a Blob of the item's type) and strings (getAsFile() returns null).
ClipboardItems ==
    {[kind |-> "file", type |-> ImagePng],
     [kind |-> "string", type |-> ImagePng],
     [kind |-> "string", type |-> TextPlain]}

\* `pasted-image-${Date.now()}.${blob.type.split('/')[1]}` when Date.now()
\* returns t.
PastedName(t, type) == "pasted-image-" \o ToString(t) \o "." \o type[2]

\* The names handlePaste can give within the modelled time.
PastedNames ==
    {PastedName(t, ImagePng) : t \in 0..MaxClock}

\* Does the loop of handlePaste make a File of this item?
IsImageFile(item) == item.type[1] = "image" /\ item.kind = "file"

\* imageFiles after the loop has passed the first k items; at[j] is the
\* value of Date.now() while the loop is at item j.
RECURSIVE ImageFiles(_, _, _)
ImageFiles(items, at, k) ==
    IF k = 0 THEN <<>>
    ELSE IF IsImageFile(items[k])
         THEN Append(ImageFiles(items, at, k - 1), PastedName(at[k], items[k].type))
         ELSE ImageFiles(items, at, k - 1)

\* The clock never runs backwards: the readings of one event are no earlier
\* than the last reading before it and do not decrease.
Readings(n) ==
    {at \in [1..n -> now..MaxClock] : \A j \in 1..(n - 1) : at[j] <= at[j + 1]}

\* handlePaste(event): clipboardData tells whether event.clipboardData is
\* set, items are its items and at the clock while the loop runs.
handlePaste(clipboardData, items, at) ==
    IF ~clipboardData THEN UNCHANGED vars
    ELSE LET imageFiles == ImageFiles(items, at, Len(items))
         IN  /\ files' = files \o imageFiles
             /\ processedImages' = IF Len(imageFiles) > 0 THEN <<>> ELSE processedImages
             /\ now' = IF Len(items) > 0 THEN at[Len(items)] ELSE now
             /\ UNCHANGED <<isProcessing, processingProgress, batches, canvas,
                            lutIndex, lutWrites>>

\* A session in which images are pasted as well as chosen: the paste
\* listener is registered on the window while the component is mounted.
NextPaste ==
    \/ \E newFiles \in SeqsOf(StepNames, 1, MaxAdd) :
          Len(files) + Len(newFiles) <= MaxFiles /\ fileChanged(newFiles)
    \/ \E clipboardData \in BOOLEAN, items \in SeqsOf(ClipboardItems, 0, MaxAdd) :
          \E at \in Readings(Len(items)) :
              /\ Len(files) + Len(items) <= MaxFiles
              /\ handlePaste(clipboardData, items, at)
    \/ \E indexToRemove \in DOMAIN files : handleRemoveFile(indexToRemove)
    \/ handleReset
    \/ ConvertEnabled /\ Startable /\ handleConvert
    \/ \E b \in DOMAIN batches : \E i \in Pending(b) : imageOnload(b, i, TRUE, TRUE)

SpecPaste == Init /\ [][NextPaste]_vars

\* A session in which previews are never removed one by one, so that the
\* list, once filled, becomes empty through "Clear All" only.
NextReset ==
    \/ \E newFiles \in SeqsOf(Names, 1, MaxAdd) :
          Len(files) + Len(newFiles) <= MaxFiles /\ fileChanged(newFiles)
    \/ handleReset
    \/ ConvertEnabled /\ Startable /\ handleConvert
    \/ ImageEvents

SpecReset == Init /\ [][NextReset]_vars

\* ------------------------------------------------------------ vocabulary
\* Item outcome o yielded a pixel buffer (the image loaded and a 2D context
\* was obtained): the item decoded.
Decoded(o) == o \in {"ok", "encfail"}

\* No item of B has so far failed to decode.
AllDecodeSoFar(B) ==
    \A i \in DOMAIN B.task : B.task[i] = "loading" \/ Decoded(B.task[i])

AllOk(B) == \A i \in DOMAIN B.task : B.task[i] = "ok"

\* The indices of the items of B with outcome o.
With(B, o) == {i \in DOMAIN B.task : B.task[i] = o}

\* Position b of batches holds the same invocation before and after the
\* step (handleConvert drops the finished invocations and appends one).
SameInvocation(b) ==
    /\ b \in DOMAIN batches'
    /\ batches'[b].files = batches[b].files
    /\ \A i \in DOMAIN batches[b].task :
          batches[b].task[i] # "loading" => batches'[b].task[i] = batches[b].task[i]

\* An item task of batch b resolves in this step.
Completes(b) ==
    /\ SameInvocation(b)
    /\ \E i \in DOMAIN batches[b].task :
          batches[b].task[i] = "loading" /\ batches'[b].task[i] # "loading"

\* The step in which the last pending item task of batch b resolves.
LastCompletes(b) == Completes(b) /\ Done(batches'[b])

\* The entries of the successful items of B, by ascending index.
RECURSIVE InSubmissionOrder(_, _)
InSubmissionOrder(B, k) ==
    IF k = 0 THEN <<>>
    ELSE IF B.task[k] = "ok"
         THEN Append(InSubmissionOrder(B, k - 1),
                     [url |-> "data:" \o B.files[k],
                      name |-> "pinku_" \o B.files[k],
                      originalName |-> B.files[k]])
         ELSE InSubmissionOrder(B, k - 1)

\* list holds exactly one entry for every successful item of B.
OneEntryPerSuccess(list, B) ==
    /\ Len(list) = Cardinality(With(B, "ok"))
    /\ \A n \in Names :
          Cardinality({k \in DOMAIN list : list[k].originalName = n})
              = Cardinality({i \in With(B, "ok") : B.files[i] = n})

\* ------------------------------------------------------------------ claims

\* C1: when the last item of a batch resolves in which exactly one item
\* failed to decode (onerror) and every other item succeeded, the published
\* result list holds exactly one entry for every item that succeeded.
C1_PartialFailure ==
    [][\A b \in DOMAIN batches :
          (/\ LastCompletes(b)
           /\ Cardinality(With(batches'[b], "decfail")) = 1
           /\ \A i \in DOMAIN batches'[b].task :
                 batches'[b].task[i] \in {"ok", "decfail"})
          => OneEntryPerSuccess(processedImages', batches'[b])]_vars

\* C2: when the last item of a batch resolves in which exactly one item
\* failed to encode (toDataURL threw) and every other item succeeded, the
\* published result list holds the entries of all other items.
C2_EncodeFailure ==
    [][\A b \in DOMAIN batches :
          (/\ LastCompletes(b)
           /\ Cardinality(With(batches'[b], "encfail")) = 1
           /\ \A i \in DOMAIN batches'[b].task :
                 batches'[b].task[i] \in {"ok", "encfail"})
          => OneEntryPerSuccess(processedImages', batches'[b])]_vars

\* C3: the promise returned by handleConvert never rejects, and it has
\* fulfilled as soon as Promise.all has settled, whatever items failed.
C3_NeverRejects ==
    \A b \in DOMAIN batches :
        /\ batches[b].promise # "rejected"
        /\ batches[b].all # "pending" => batches[b].promise = "fulfilled"

C3_Witness ==
    \E b \in DOMAIN batches :
        /\ batches[b].promise = "fulfilled"
        /\ With(batches[b], "decfail") # {}
        /\ With(batches[b], "encfail") # {}

\* C4: the step that completes a batch of N items which all decoded and
\* encoded publishes exactly N entries, entry k named "pinku_" + the name
\* of file k, with originalName the name of file k.
C4_AllSucceed ==
    [][\A b \in DOMAIN batches :
          (LastCompletes(b) /\ AllOk(batches'[b]))
          => /\ Len(processedImages') = Len(batches'[b].files)
             /\ \A k \in DOMAIN processedImages' :
                   /\ processedImages'[k].name = "pinku_" \o batches'[b].files[k]
                   /\ processedImages'[k].originalName = batches'[b].files[k]]_vars

C4_Witness ==
    \E b \in DOMAIN batches :
        /\ AllOk(batches[b])
        /\ Len(batches[b].files) = MaxFiles
        /\ Len(processedImages) = MaxFiles
        /\ \A k \in DOMAIN processedImages :
              processedImages[k].name = "pinku_" \o batches[b].files[k]

\* C5 as claimed: in a batch whose items all decode, the progress value
\* published by the last completion is 100 and the value published by every
\* earlier completion is below 100.
C5_Below100UntilLast ==
    [][\A b \in DOMAIN batches :
          (Completes(b) /\ AllDecodeSoFar(batches'[b]))
          => IF Done(batches'[b])
             THEN processingProgress' = 100
             ELSE processingProgress' < 100]_vars

\* C5 as amended: in a batch of N items that all decode, the progress value
\* published by the last completion is 100, for every completion order, and
\* the value published by every earlier completion is below 100 when
\* N < 200 (from N = 200 on, round((N-1)/N*100) is 100 already).
C5_ProgressReaches100 ==
    [][\A b \in DOMAIN batches :
          (Completes(b) /\ AllDecodeSoFar(batches'[b]))
          => IF Done(batches'[b])
             THEN processingProgress' = 100
             ELSE Len(batches'[b].files) < 200 => processingProgress' < 100]_vars

C5_Witness ==
    \E b \in DOMAIN batches :
        /\ Len(batches[b].files) >= 200
        /\ AllDecodeSoFar(batches[b])
        /\ Cardinality(Pending(b)) = 1
        /\ processingProgress = 100

\* C6: the step in which Promise.all fulfils publishes the entries of the
\* successful items in the order of the submitted file list, whatever the
\* order in which the items completed.
C6_SubmissionOrder ==
    [][\A b \in DOMAIN batches :
          (batches[b].all = "pending" /\ batches'[b].all = "fulfilled")
          => processedImages' =
                InSubmissionOrder(batches'[b], Len(batches'[b].files))]_vars

C6_Witness ==
    \E b \in DOMAIN batches :
        /\ batches[b].all = "fulfilled"
        /\ Len(processedImages) = 2
        /\ processedImages[1].originalName # processedImages[2].originalName
        /\ processedImages = InSubmissionOrder(batches[b], Len(batches[b].files))

\* C7: in every state processedCount of a batch equals the number of its
\* items that have decoded so far, hence M once all M items have decoded.
C7_NoLostUpdates ==
    \A b \in DOMAIN batches :
        /\ batches[b].processedCount =
              Cardinality({i \in DOMAIN batches[b].task : Decoded(batches[b].task[i])})
        /\ (\A i \in DOMAIN batches[b].task : Decoded(batches[b].task[i]))
              => batches[b].processedCount = Len(batches[b].files)

C7_Witness ==
    \E b \in DOMAIN batches :
        /\ Len(batches[b].files) >= 50
        /\ \A i \in DOMAIN batches[b].task : Decoded(batches[b].task[i])
        /\ batches[b].processedCount = Len(batches[b].files)

\* C8: isProcessing is true in every state in which an item task of some
\* batch is still pending.
C8_RunningUntilResolved ==
    \A b \in DOMAIN batches : Pending(b) # {} => isProcessing

\* C9: an item task of an invocation that is not the latest one changes
\* neither the progress value nor the result list, and every change of the
\* progress value while processing is to 0 or to the value computed from
\* the latest batch's own completed-count and total.
C9_BatchIsolation ==
    [][/\ \A b \in DOMAIN batches :
             (b < Len(batches) /\ Completes(b))
             => /\ processingProgress' = processingProgress
                /\ processedImages' = processedImages
       /\ (isProcessing /\ batches' # <<>> /\ processingProgress' # processingProgress)
             => processingProgress' \in
                   {0, Progress(batches'[Len(batches')].processedCount,
                                Len(batches'[Len(batches')].files))}]_vars

\* C10: processedCount of a batch never exceeds the number of files of the
\* batch, and no step decreases it while the invocation exists.
C10_CountBounded ==
    /\ [](\A b \in DOMAIN batches :
             batches[b].processedCount <= Len(batches[b].files))
    /\ [][\A b \in DOMAIN batches :
             SameInvocation(b)
             => batches'[b].processedCount >= batches[b].processedCount]_vars

C10_Witness ==
    \E b \in DOMAIN batches :
        /\ Len(batches[b].files) = MaxFiles
        /\ batches[b].processedCount = MaxFiles
        /\ With(batches[b], "encfail") # {}

\* C11: handleConvert invoked with an empty file list is a no-op.  A step
\* taken with an empty file list that adds no file and in which no item task
\* resolves (the only such step is the call of handleConvert) leaves
\* isProcessing, processingProgress and processedImages as they were, starts
\* no item task and publishes nothing.
C11_EmptyNoOp ==
    [][(/\ files = <<>>
        /\ files' = <<>>
        /\ ~\E b \in DOMAIN batches : Completes(b))
       => UNCHANGED <<isProcessing, processingProgress, processedImages, batches>>]_vars

\* An empty file list with results and progress of an earlier batch still
\* shown: the state in which a call without the guard would reset them.
C11_Witness ==
    /\ files = <<>>
    /\ processedImages # <<>>
    /\ processingProgress = 100
    /\ ~isProcessing

\* C12: every call of handleConvert with a non-empty file list (the step
\* that turns isProcessing on) leaves the progress at 0 and the result list
\* empty, with every item task of the new batch still pending and nothing
\* counted, whatever the earlier call left behind.
C12_ResetOnInvocation ==
    [][(~isProcessing /\ isProcessing')
       => /\ processingProgress' = 0
          /\ processedImages' = <<>>
          /\ batches' # <<>>
          /\ LET B == batches'[Len(batches')]
             IN  /\ B.files = files /\ files # <<>>
                 /\ B.processedCount = 0
                 /\ \A i \in DOMAIN B.task : B.task[i] = "loading"]_vars

\* A new batch has just begun while a task of the earlier, failed batch is
\* still pending and that batch had already published progress.
C12_Witness ==
    /\ isProcessing
    /\ Len(batches) = 2
    /\ batches[1].processedCount > 0
    /\ batches[2].processedCount = 0
    /\ \A i \in DOMAIN batches[2].task : batches[2].task[i] = "loading"
    /\ processingProgress = 0
    /\ processedImages = <<>>

\* C13: whenever isProcessing is true and every loading image eventually
\* fires its load or error event, isProcessing eventually becomes false
\* again, whether the items succeed, yield null or fail.
C13_ProcessingEnds == isProcessing ~> ~isProcessing

\* The latest batch ended on the failure path and the flag is off again.
C13_Witness ==
    /\ ~isProcessing
    /\ batches # <<>>
    /\ batches[Len(batches)].all = "rejected"
    /\ batches[Len(batches)].promise = "fulfilled"

\* C14: in every reachable state the published result list is empty, or it
\* is the complete list of the successful results of one batch all of whose
\* item tasks have resolved and whose Promise.all fulfilled; and while the
\* latest batch has ended in failure the list is empty.
C14_NoPartialResults ==
    /\ processedImages # <<>> =>
          \E b \in DOMAIN batches :
              /\ Done(batches[b])
              /\ batches[b].all = "fulfilled"
              /\ processedImages = InSubmissionOrder(batches[b], Len(batches[b].files))
    /\ (batches # <<>> /\ batches[Len(batches)].all = "rejected") =>
          processedImages = <<>>

\* A batch with a null item and a successful item has published its list.
C14_Witness ==
    /\ processedImages # <<>>
    /\ \E b \in DOMAIN batches :
          /\ Done(batches[b])
          /\ With(batches[b], "null") # {}
          /\ With(batches[b], "ok") # {}
          /\ processedImages = InSubmissionOrder(batches[b], Len(batches[b].files))

\* C15: the published list never holds a null or placeholder entry, and it
\* holds exactly one entry for every successful item of the batch that
\* published it: at most one per source file, none for an item that failed
\* or got no canvas context.
C15_OneEntryPerFile ==
    /\ \A k \in DOMAIN processedImages :
          processedImages[k] # Null /\ processedImages[k].url # ""
    /\ processedImages # <<>> =>
          \E b \in DOMAIN batches :
              /\ batches[b].all = "fulfilled"
              /\ OneEntryPerSuccess(processedImages, batches[b])
              /\ Len(processedImages) <= Len(batches[b].files)

\* Two selected files of the same name both succeeded: two entries.
C15_Witness ==
    /\ Len(processedImages) = 2
    /\ processedImages[1].originalName = processedImages[2].originalName
    /\ \E b \in DOMAIN batches :
          batches[b].all = "fulfilled" /\ Len(batches[b].files) = 2

\* C16: the object URL of every item task is revoked exactly once: not
\* while the task still awaits its image, and by the time the task has
\* resolved, whatever its outcome; so once every item task of a batch has
\* resolved none of its URLs is left unrevoked.
C16_UrlRevokedOnce ==
    \A b \in DOMAIN batches :
        /\ \A i \in DOMAIN batches[b].task :
              batches[b].revoked[i] = IF batches[b].task[i] = "loading" THEN 0 ELSE 1
        /\ Done(batches[b]) =>
              \A i \in DOMAIN batches[b].task : batches[b].revoked[i] = 1

\* A task that failed to decode has revoked its URL while the URL of the
\* other, still loading item of the batch is live.
C16_Witness ==
    \E b \in DOMAIN batches :
        \E i, j \in DOMAIN batches[b].task :
            /\ batches[b].task[i] = "decfail" /\ batches[b].revoked[i] = 1
            /\ batches[b].task[j] = "loading" /\ batches[b].revoked[j] = 0

\* 100*c/t rounded to the nearest integer, halves rounded up, in exact
\* arithmetic.
HalfUp(c, t) == (200 * c + t) \div (2 * t)

\* An item task of batch b increments the batch's counter in this step.
CountsOne(b) ==
    /\ Completes(b)
    /\ batches'[b].processedCount = batches[b].processedCount + 1

\* C18 as stated: every step in which an item completion is counted
\* publishes round(completed/total*100) with halves rounded up, an integer
\* in 0..100, and a step of the batch that counts nothing publishes nothing.
C18_ProgressHalfUp ==
    [][\A b \in DOMAIN batches :
          /\ CountsOne(b) =>
                /\ processingProgress' \in 0..100
                /\ processingProgress' =
                      HalfUp(batches'[b].processedCount, Len(batches'[b].files))
          /\ (Completes(b) /\ ~CountsOne(b)) =>
                processingProgress' = processingProgress]_vars

\* C18, amended: the value published with a counted completion is an
\* integer in 0..100 nearest to completed/total*100; an exact half is
\* rounded up, except that it is rounded down when completed/total is
\* 29/200, 57/200, 113/200 or 115/200 (the double product lies just below
\* the half); a step of the batch that counts nothing publishes nothing.
C18_ProgressNearest ==
    [][\A b \in DOMAIN batches :
          /\ CountsOne(b) =>
                LET p == processingProgress'
                    c == batches'[b].processedCount
                    t == Len(batches'[b].files)
                IN  /\ p \in 0..100
                    /\ 2 * p * t - t <= 200 * c
                    /\ 200 * c <= 2 * p * t + t
                    /\ (200 * c = 2 * p * t + t)
                          <=> (\E h \in {29, 57, 113, 115} : 200 * c = h * t)
          /\ (Completes(b) /\ ~CountsOne(b)) =>
                processingProgress' = processingProgress]_vars

\* The 29th completion of a batch of 200 has published 14, where 14.5
\* rounded half-up is 15.
C18_Witness ==
    \E b \in DOMAIN batches :
        /\ Len(batches[b].files) = 200
        /\ batches[b].processedCount = 29
        /\ processingProgress = 14
        /\ HalfUp(29, 200) = 15

\* The byte offsets at which the pixels of a buffer begin.
PixelOffsets(data) == {i \in 0..(Len(data) - 1) : i % 4 = 0}

\* The luminance index of the pixel of data at offset i.
LuminanceAt(data, i) == Luminance(data[i + 1], data[i + 2], data[i + 3])

C20_FunctionOfLuminance ==
    imageData # <<>> =>
        /\ \A i \in PixelOffsets(bitmap) :
              LET L == LuminanceAt(bitmap, i)
              IN  <<imageData[i + 1], imageData[i + 2], imageData[i + 3]>>
                      = <<rLUT[L], gLUT[L], bLUT[L]>>
        /\ \A i, j \in PixelOffsets(bitmap) :
              LuminanceAt(bitmap, i) = LuminanceAt(bitmap, j) =>
                  /\ imageData[i + 1] = imageData[j + 1]
                  /\ imageData[i + 2] = imageData[j + 2]
                  /\ imageData[i + 3] = imageData[j + 3]

\* Pure red and a dark green, both of luminance 54, have been filtered to
\* the same colour.
C20_Witness ==
    /\ Len(imageData) = 8
    /\ <<bitmap[1], bitmap[2], bitmap[3]>> = <<255, 0, 0>>
    /\ <<bitmap[5], bitmap[6], bitmap[7]>> = <<0, 76, 0>>
    /\ LuminanceAt(bitmap, 0) = 54 /\ LuminanceAt(bitmap, 4) = 54
    /\ <<imageData[1], imageData[2], imageData[3]>>
          = <<imageData[5], imageData[6], imageData[7]>>

\* C17: the transform step is atomic.  From the resumption of an item
\* task after its decode to the production of its result every step is a
\* step of that task: a pass of its filtering loop, which changes nothing
\* but its own buffer, or its end, which comes only when the whole buffer
\* is filtered and resolves that task alone.  Whenever anything else can
\* run no buffer is in flight, so no partially filtered buffer is observed.
C17_TransformAtomic ==
    /\ [](running = Idle => imageData = <<>> /\ bitmap = <<>>)
    /\ [][running # Idle =>
            \/ /\ running' = [running EXCEPT !.at = @ + 4]
               /\ running.at < Len(imageData)
               /\ UNCHANGED <<files, processedImages, isProcessing,
                              processingProgress, batches, bitmap>>
            \/ /\ running' = Idle
               /\ running.at >= Len(imageData)
               /\ files' = files
               /\ Len(batches') = Len(batches)
               /\ \A b \in DOMAIN batches : \A i \in DOMAIN batches[b].task :
                     IF b = running.b /\ i = running.i
                     THEN batches'[b].task[i] \in {"ok", "encfail"}
                     ELSE batches'[b].task[i] = batches[b].task[i]]_vars

\* The first pixel of a two-pixel buffer is filtered, the second is not,
\* and another item task of the batch is waiting for its image.
C17_Witness ==
    /\ running # Idle
    /\ running.at = 4
    /\ Len(imageData) = 8
    /\ imageData[1] # bitmap[1]
    /\ imageData[5] = bitmap[5]
    /\ \E j \in DOMAIN batches[running.b].task :
          j # running.i /\ batches[running.b].task[j] = "loading"

\* The numerator over 255 of the exact value of entry i of channel c:
\* A[c] * (1 - i/255) + B[c] * (i/255) = Exact255(c, i) / 255.
Exact255(c, i) == COLOR_A[c] * (255 - i) + COLOR_B[c] * i

\* n/d (n >= 0, d > 0) rounded to the nearest integer, halves up, and to
\* the nearest integer, halves to even; clamped to 0..255.
Clamped(v) == IF v > 255 THEN 255 ELSE IF v < 0 THEN 0 ELSE v

RoundHalfUp(n, d) == Clamped((2 * n + d) \div (2 * d))

RoundHalfEven(n, d) ==
    LET q == n \div d
    IN  Clamped(IF 2 * (n % d) > d THEN q + 1
                ELSE IF 2 * (n % d) < d THEN q
                ELSE IF q % 2 = 0 THEN q ELSE q + 1)

\* C21: every entry the construction loop has filled equals
\* A[c]*(1 - i/255) + B[c]*(i/255) rounded and clamped to 0..255, with
\* A = (22,80,39) and B = (249,159,210), and rounding halves up and
\* rounding halves to even give that same value.
C21_LutConstruction ==
    /\ COLOR_A = <<22, 80, 39>> /\ COLOR_B = <<249, 159, 210>>
    /\ \A c \in 1..3 : \A i \in 0..255 :
          i < lutIndex =>
              /\ TableEntry(c, i) = RoundHalfUp(Exact255(c, i), 255)
              /\ TableEntry(c, i) = RoundHalfEven(Exact255(c, i), 255)

\* The loop has ended; entry 128 is (136, 120, 125): 135.95, 119.65 and
\* 124.83 rounded.
C21_Witness ==
    /\ lutIndex = 256
    /\ <<rLUT[128], gLUT[128], bLUT[128]>> = <<136, 120, 125>>

\* The colour of the pixel of data at offset i.
RGBAt(data, i) == <<data[i + 1], data[i + 2], data[i + 3]>>

\* C22: on every channel the table entry at luminance 0 is anchor A and
\* the entry at luminance 255 is anchor B, and filtering maps a pixel
\* (0,0,0) to (22,80,39) and a pixel (255,255,255) to (249,159,210).
C22_AnchorEndpoints ==
    /\ \A c \in 1..3 :
          TableEntry(c, 0) = COLOR_A[c] /\ TableEntry(c, 255) = COLOR_B[c]
    /\ imageData # <<>> =>
          \A i \in PixelOffsets(bitmap) :
              /\ RGBAt(bitmap, i) = <<0, 0, 0>> => RGBAt(imageData, i) = <<22, 80, 39>>
              /\ RGBAt(bitmap, i) = <<255, 255, 255>> =>
                    RGBAt(imageData, i) = <<249, 159, 210>>

\* A black and a white pixel have been filtered to the two anchors.
C22_Witness ==
    /\ Len(imageData) = 8
    /\ RGBAt(bitmap, 0) = <<0, 0, 0>> /\ RGBAt(bitmap, 4) = <<255, 255, 255>>
    /\ RGBAt(imageData, 0) = COLOR_A /\ RGBAt(imageData, 4) = COLOR_B

\* C23: A[c] < B[c] on every channel, and on every channel the entries the
\* loop has filled are non-decreasing in the luminance index:
\* lut[c][i] <= lut[c][i+1] for every i in 0..254.
C23_LutMonotone ==
    \A c \in 1..3 :
        /\ COLOR_A[c] < COLOR_B[c]
        /\ \A i \in 0..254 :
              i + 1 < lutIndex => TableEntry(c, i) <= TableEntry(c, i + 1)

\* The loop has ended; the green table rises from 80 to 159 over 255
\* steps, so it has equal neighbours as well as rising ones.
C23_Witness ==
    /\ lutIndex = 256
    /\ gLUT[0] = 80 /\ gLUT[255] = 159
    /\ \E i \in 0..254 : gLUT[i] = gLUT[i + 1]
    /\ \E i \in 0..254 : gLUT[i] < gLUT[i + 1]

\* C24: the luminance index filtering computes for a pixel is an integer
\* in 0..255, so every lookup is inside the 256-entry tables, at an entry
\* the construction loop has filled, and every byte filtering stores is a
\* defined byte.
C24_LuminanceInRange ==
    /\ \A i \in PixelOffsets(bitmap) :
          LET L == LuminanceAt(bitmap, i)
          IN  L \in 0..255 /\ L < lutIndex
    /\ \A k \in DOMAIN imageData : imageData[k] \in 0..255

\* A white pixel, of the largest luminance 255, and the pixel (0,14,76),
\* whose double sum 15.499999999999998 rounds to 15, have been filtered.
C24_Witness ==
    /\ Len(imageData) = 8
    /\ RGBAt(bitmap, 0) = <<255, 255, 255>> /\ LuminanceAt(bitmap, 0) = 255
    /\ RGBAt(bitmap, 4) = <<0, 14, 76>> /\ LuminanceAt(bitmap, 4) = 15
    /\ RGBAt(imageData, 0) = <<rLUT[255], gLUT[255], bLUT[255]>>
    /\ RGBAt(imageData, 4) = <<rLUT[15], gLUT[15], bLUT[15]>>

\* C25: the three lookup tables are never written after the module's
\* initialisation: in every state of a session, whatever handlers, item
\* tasks and passes of filtering have run, the construction loop is over
\* and no entry has been stored since, so that every entry holds the value
\* the loop gave it (TableEntry).
C25_LutReadOnly ==
    /\ lutIndex = 256
    /\ lutWrites = <<>>

\* One image of a batch of two has been filtered and counted, and the
\* filtering of the other has passed its first pixel.
C25_Witness ==
    /\ isProcessing /\ processingProgress = 50
    /\ running # Idle /\ running.at >= 4
    /\ RGBAt(imageData, 0) # RGBAt(bitmap, 0)
    /\ lutWrites = <<>>

\* This step is an invocation of handleConvert that starts a batch.
Invoked == ~isProcessing /\ isProcessing'

\* C26: a batch works on a snapshot of the file list.  The items of the
\* batch handleConvert starts are the files at the invocation, one item
\* task each; no later step (adding, pasting, removing, clearing, an item
\* event) changes the items or their number, and every progress value an
\* item task publishes has that number as its denominator.
C26_BatchSnapshot ==
    [][IF Invoked
       THEN LET B == batches'[Len(batches')]
            IN  B.files = files /\ DOMAIN B.task = DOMAIN files
       ELSE \A b \in DOMAIN batches :
                /\ b \in DOMAIN batches'
                /\ batches'[b].files = batches[b].files
                /\ DOMAIN batches'[b].task = DOMAIN batches[b].files
                /\ CountsOne(b) =>
                      processingProgress' =
                          Progress(batches'[b].processedCount, Len(batches[b].files))
      ]_vars

\* A batch of two items is running and has counted one of them at 50 per
\* cent, while the list on the screen holds one pasted file only.
C26_Witness ==
    /\ isProcessing /\ processingProgress = 50
    /\ Len(files) = 1 /\ files[1] \in PastedNames
    /\ \E b \in DOMAIN batches :
          /\ batches[b].files = <<"a.png", "a.png">>
          /\ batches[b].processedCount = 1

\* Batch b's `await Promise.all` fulfils in this step, so that the tail of
\* handleConvert runs setProcessedImages(validResults).
Publishes(b) ==
    /\ SameInvocation(b)
    /\ batches[b].all = "pending"
    /\ batches'[b].all = "fulfilled"

\* C27: whenever handleConvert publishes a result list, the list's length
\* equals the batch's processedCount at that moment: the empty list at the
\* invocation, when the count is 0, and the valid results when Promise.all
\* has fulfilled.
C27_ResultsMatchCount ==
    [][IF Invoked
       THEN /\ processedImages' = <<>>
            /\ batches'[Len(batches')].processedCount = 0
       ELSE \A b \in DOMAIN batches :
                Publishes(b) =>
                    /\ processedImages' = ValidResults(batches'[b])
                    /\ Len(processedImages') = batches'[b].processedCount
      ]_vars

\* A batch of an item without a 2D context and an item that succeeded has
\* published one entry, with a count of one.
C27_Witness ==
    /\ ~isProcessing /\ Len(processedImages) = 1
    /\ \E b \in DOMAIN batches :
          /\ batches[b].all = "fulfilled"
          /\ With(batches[b], "null") # {} /\ With(batches[b], "ok") # {}
          /\ batches[b].processedCount = 1
          /\ processedImages = ValidResults(batches[b])

\* C28: in every reachable state the result list is no longer than the
\* file list, and every entry's originalName is the name of a file of the
\* current list: "Processed Results (k/n)" has k <= n.
C28_ResultsWithinFiles ==
    /\ Len(processedImages) <= Len(files)
    /\ \A k \in DOMAIN processedImages :
          \E n \in DOMAIN files : files[n] = processedImages[k].originalName

\* The state handleReset leaves: no files, no results, progress 0.
Cleared == files = <<>> /\ processedImages = <<>> /\ processingProgress = 0

\* C29: reset is durable.  From the state handleReset leaves, a step that
\* is not an invocation of handleConvert publishes neither a result nor a
\* progress value: the results stay empty and the progress stays 0, also
\* while a batch is running.  (With an empty list the convert button is
\* disabled, so the state ends when the user adds files.)
C29_ResetDurable ==
    [][(Cleared /\ ~Invoked) =>
           (processedImages' = <<>> /\ processingProgress' = 0)]_vars

\* C30: the files made by handlePaste have names that differ from one
\* another, within one paste event and across paste events: no pasted name
\* stands at two places of the file list.
C30_PastedNamesUnique ==
    \A i, j \in DOMAIN files :
        (i # j /\ files[i] \in PastedNames /\ files[j] \in PastedNames)
            => files[i] # files[j]

==========================================================================
